---- MODULE Spec2Model ----
(***************************************************************************)
(* Black-Scholes pricer (BS_CALL, BS_PUT) and the implied-volatility       *)
(* search (implied_volatility) of website-files/black_scholes.py.          *)
(*                                                                         *)
(* Numbers.  The program computes in IEEE doubles; the model computes in   *)
(* signed fixed point with six decimal digits (the integer n stands for    *)
(* n / 10^6), inside 32-bit integers.  Products and quotients are formed   *)
(* limb by limb so that no intermediate leaves the 32-bit range.  The      *)
(* library functions the program calls (np.log, np.sqrt, np.exp,           *)
(* scipy.stats.norm.cdf) are computed by series that agree with them to    *)
(* about 10^-6.  The IEEE special values the program can produce (nan,     *)
(* +inf, -inf) are kept as tags.                                           *)
(***************************************************************************)
EXTENDS Integers, Sequences, FiniteSets, TLC

(***************************************************************************)
(* Fixed-point arithmetic                                                  *)
(***************************************************************************)
SC == 1000 * 1000

Kilo == 10 * 100

Abs(x) == IF x < 0 THEN -x ELSE x

Sgn(x) == IF x < 0 THEN -1 ELSE IF x = 0 THEN 0 ELSE 1

\* The arithmetic below is written as functions, f[x], so that an argument is a
\* value by the time the body reads it, as it is in the program.

\* a * b / 10^6 for a, b >= 0, rounded to nearest; three limbs of three digits.
MulU[a \in Nat, b \in Nat] ==
    LET a2 == a \div SC
        a1 == (a \div Kilo) % Kilo
        a0 == a % Kilo
        b2 == b \div SC
        b1 == (b \div Kilo) % Kilo
        b0 == b % Kilo
    IN  a2 * b2 * SC
        + (a2 * b1 + a1 * b2) * Kilo
        + (a2 * b0 + a1 * b1 + a0 * b2)
        + ((a1 * b0 + a0 * b1) * Kilo + a0 * b0 + SC \div 2) \div SC

MulS[a \in Int, b \in Int] == Sgn(a) * Sgn(b) * MulU[Abs(a), Abs(b)]

\* Python float product x * y.
Mul(a, b) == MulS[a, b]

\* n further decimal digits of r / b (0 <= r < b), as an integer.
DivDigits[r \in Nat, b \in Nat, n \in Nat] ==
    IF n = 0 THEN 0
    ELSE ((r * 10) \div b) * (10 ^ (n - 1)) + DivDigits[(r * 10) % b, b, n - 1]

\* a * 10^6 / b for a >= 0, b > 0, rounded to nearest (long division to seven
\* digits, the last one rounded away).
DivU[a \in Nat, b \in Nat] == (a \div b) * SC + (DivDigits[a % b, b, 7] + 5) \div 10

DivS[a \in Int, b \in Int] == Sgn(a) * Sgn(b) * DivU[Abs(a), Abs(b)]

\* Python float quotient x / y for a divisor that is not zero.
Div(a, b) == DivS[a, b]

\* Newton's iteration for the square root, from above, until it stops falling.
SqrtIter[x \in Nat, g \in Nat] ==
    IF (g + Div(x, g)) \div 2 >= g THEN g
    ELSE SqrtIter[x, (g + Div(x, g)) \div 2]

\* np.sqrt(x) for x >= 0.
Sqrt(x) == IF x = 0 THEN 0 ELSE SqrtIter[x, (x + SC) \div 2 + 1]

Ln2 == 693147

\* 1 + f/k * (1 + f/(k+1) * (...)), the tail of the exponential series.
ExpTaylor[f \in Nat, k \in Nat, last \in Nat] ==
    IF k > last THEN SC
    ELSE SC + Mul(f, ExpTaylor[f, k + 1, last]) \div k

Pow2[k \in Nat] == IF k = 0 THEN 1 ELSE 2 * Pow2[k - 1]

\* exp(k ln 2 + f) = 2^k exp(f), for 0 <= f < ln 2.
ExpParts[k \in Int, f \in Nat] ==
    IF k >= 0 THEN ExpTaylor[f, 1, 10] * Pow2[k]
    ELSE IF k < -30 THEN 0
    ELSE ExpTaylor[f, 1, 10] \div Pow2[-k]

ExpF[x \in Int] == ExpParts[x \div Ln2, x - (x \div Ln2) * Ln2]

\* np.exp(x)
Exp(x) == ExpF[x]

\* 2 atanh(z) = 2 z (1 + z^2/3 + z^4/5 + z^6/7 + z^8/9), from z and z^2.
Atanh2[z \in Int, z2 \in Nat] ==
    2 * Mul(z, SC + Mul(z2, SC \div 3 + Mul(z2, SC \div 5
                 + Mul(z2, SC \div 7 + Mul(z2, SC \div 9)))))

LnUnit[z \in Int] == Atanh2[z, Mul(z, z)]

\* ln of x > 0: halve or double x into [0.75, 1.5), then 2 atanh((x-1)/(x+1)).
LnNorm[x \in Nat, e \in Int] ==
    IF 2 * x >= 3 * SC THEN LnNorm[x \div 2, e + 1]
    ELSE IF 4 * x < 3 * SC THEN LnNorm[2 * x, e - 1]
    ELSE e * Ln2 + LnUnit[Div(x - SC, x + SC)]

\* np.log(x) for x > 0.
Ln(x) == LnNorm[x, 0]

(***************************************************************************)
(* IEEE values: a finite number, nan, +inf or -inf                         *)
(***************************************************************************)
Fin(v) == [tag |-> "fin", v |-> v]

NaN == [tag |-> "nan", v |-> 0]

PInf == [tag |-> "pinf", v |-> 0]

NInf == [tag |-> "ninf", v |-> 0]

IEEE == [tag : {"fin", "nan", "pinf", "ninf"}, v : Int]

IsFin(x) == x.tag = "fin"

\* x > y on floats: False whenever an operand is nan.
Gt(x, y) == IsFin(x) /\ IsFin(y) /\ x.v > y.v

\* abs(x - y) < tol on floats: False whenever an operand is nan.
Within(x, y, tol) == IsFin(x) /\ IsFin(y) /\ Abs(x.v - y.v) < tol

(***************************************************************************)
(* scipy.stats.norm.cdf, by the rational approximation 26.2.17 of          *)
(* Abramowitz and Stegun (absolute error below 10^-7)                      *)
(***************************************************************************)
InvSqrt2Pi == 398942

\* b1 t + b2 t^2 + b3 t^3 + b4 t^4 + b5 t^5
PhiPoly[t \in Int] ==
    Mul(t, 319382 + Mul(t, -356564 + Mul(t, 1781478
           + Mul(t, -1821256 + Mul(t, 1330274)))))

\* 1 - pdf(x) poly(1 / (1 + p x)) for x >= 0
PhiPos[x \in Nat] ==
    SC - Mul(Mul(InvSqrt2Pi, Exp(-(Mul(x, x) \div 2))),
             PhiPoly[Div(SC, SC + Mul(231642, x))])

\* norm.cdf of a finite x; beyond 6 standard deviations it is 0 or 1 to the
\* last digit kept.
Phi[x \in Int] ==
    IF x >= 6 * SC THEN SC
    ELSE IF x <= -6 * SC THEN 0
    ELSE IF x >= 0 THEN PhiPos[x]
    ELSE SC - PhiPos[-x]

\* N(d) for an IEEE d: N(+inf) = 1, N(-inf) = 0, N(nan) = nan.
N[d \in IEEE] ==
    CASE d.tag = "fin"  -> Fin(Phi[d.v])
      [] d.tag = "pinf" -> Fin(SC)
      [] d.tag = "ninf" -> Fin(0)
      [] OTHER          -> NaN

\* -d for an IEEE d.
Neg(d) ==
    CASE d.tag = "fin"  -> Fin(-d.v)
      [] d.tag = "pinf" -> NInf
      [] d.tag = "ninf" -> PInf
      [] OTHER          -> NaN

(***************************************************************************)
(* Pricer: BS_CALL and BS_PUT                                              *)
(***************************************************************************)
\* S/K of two Python floats raises ZeroDivisionError when K is zero; every
\* later division is a numpy one, which yields inf or nan instead.
ZeroDivisionError == [tag |-> "raise", v |-> 0]

\* np.log(q): nan below zero, -inf at zero.
Log[q \in Int] ==
    IF q < 0 THEN NaN ELSE IF q = 0 THEN NInf ELSE Fin(Ln(q))

\* num / den for finite operands, den # 0.  A quotient beyond 100 in size is
\* kept as +-100: N() is flat there, and so is N() of it less sigma*sqrt(T).
Quot[num \in Int, den \in Int] ==
    IF Abs(num) \div 100 >= Abs(den)
    THEN Sgn(num) * Sgn(den) * 100 * SC
    ELSE Div(num, den)

\* (L + drift) / den for L = np.log(S/K), drift = (r + sigma**2/2)*T and
\* den = sigma*np.sqrt(T), which is -0.0 when negz.
Ratio[L \in IEEE, drift \in Int, den \in Int, negz \in BOOLEAN] ==
    IF L.tag = "nan" THEN NaN
    ELSE IF L.tag = "ninf"
         THEN IF den < 0 \/ negz THEN PInf ELSE NInf
    ELSE IF den # 0 THEN Fin(Quot[L.v + drift, den])
    ELSE IF L.v + drift = 0 THEN NaN
    ELSE IF (L.v + drift > 0) = negz THEN NInf ELSE PInf

\* d1 = (np.log(S/K) + (r + sigma**2/2)*T) / (sigma*np.sqrt(T)), for K # 0;
\* np.sqrt of a negative T is nan.
D1(S, K, T, r, sigma) ==
    IF T < 0 THEN NaN
    ELSE Ratio[Log[Div(S, K)], Mul(r + Mul(sigma, sigma) \div 2, T),
               Mul(sigma, Sqrt(T)), sigma < 0 /\ T = 0]

\* d2 = d1 - sigma*np.sqrt(T)
D2[d1 \in IEEE, T \in Int, sigma \in Int] ==
    IF IsFin(d1) THEN Fin(d1.v - Mul(sigma, Sqrt(T))) ELSE d1

\* np.exp(-r*T)
Discount(r, T) == Exp(-Mul(r, T))

\* C = S * N(d1) - K * np.exp(-r*T) * N(d2)
CallValue[S \in Int, K \in Int, T \in Int, r \in Int, d1 \in IEEE, d2 \in IEEE] ==
    IF ~IsFin(d1) /\ d1.tag = "nan" THEN NaN
    ELSE Fin(Mul(S, N[d1].v) - Mul(Mul(K, Discount(r, T)), N[d2].v))

\* P = K * np.exp(-r*T) * N(-d2) - S * N(-d1)
PutValue[S \in Int, K \in Int, T \in Int, r \in Int, d1 \in IEEE, d2 \in IEEE] ==
    IF ~IsFin(d1) /\ d1.tag = "nan" THEN NaN
    ELSE Fin(Mul(Mul(K, Discount(r, T)), N[Neg(d2)].v) - Mul(S, N[Neg(d1)].v))

CallFrom[S \in Int, K \in Int, T \in Int, r \in Int, sigma \in Int, d1 \in IEEE] ==
    CallValue[S, K, T, r, d1, D2[d1, T, sigma]]

PutFrom[S \in Int, K \in Int, T \in Int, r \in Int, sigma \in Int, d1 \in IEEE] ==
    PutValue[S, K, T, r, d1, D2[d1, T, sigma]]

BS_CALL(S, K, T, r, sigma) ==
    IF K = 0 THEN ZeroDivisionError
    ELSE CallFrom[S, K, T, r, sigma, D1(S, K, T, r, sigma)]

BS_PUT(S, K, T, r, sigma) ==
    IF K = 0 THEN ZeroDivisionError
    ELSE PutFrom[S, K, T, r, sigma, D1(S, K, T, r, sigma)]

(***************************************************************************)
(* Calibrator: implied_volatility                                          *)
(***************************************************************************)
\* tolerance = 0.01
tolerance == 10000

\* Mutant: the range one pass too long.
max_iterations_one_more == 100 + 1

max_iterations == 100

\* the 0.05 of "sigma * 0.05"
step == 50000

None == [tag |-> "None", v |-> 0]

Float(v) == [tag |-> "float", v |-> v]

\* a local variable that has not been assigned yet
Unbound == [tag |-> "unbound", v |-> 0]

\* round(x, 4): to the nearest multiple of 10^-4, a tie to the even one.
Round4(x) ==
    LET q   == x \div 100
        rem == x % 100
    IN  IF rem < 50 THEN q * 100
        ELSE IF rem > 50 THEN (q + 1) * 100
        ELSE IF q % 2 = 0 THEN q * 100
        ELSE (q + 1) * 100

\* Mutant: the abs() left out.
AcceptsSigned(e, m) == IsFin(e) /\ e.v - m < tolerance

\* abs(e - m) < tolerance
Accepts(e, m) == Within(e, Fin(m), tolerance)

\* Mutant: a step of 10%.
DecreaseTenPercent(sigma) == sigma - Mul(sigma, 2 * step)

\* sigma -= sigma * 0.05
Decrease(sigma) == sigma - Mul(sigma, step)

\* Mutant: the step added as it is, not as a share of sigma.
IncreaseByStep(sigma) == sigma + step

\* sigma += sigma * 0.05
Increase(sigma) == sigma + Mul(sigma, step)

\* Mutant: the two branches swapped.
AdjustReversed(sigma, e, m) ==
    IF Gt(e, Fin(m)) THEN Increase(sigma) ELSE Decrease(sigma)

\* Mutant: the comparison never true.
AdjustAlwaysUp(sigma, e, m) == Increase(sigma)

\* the elif / else of one iteration that did not accept
Adjust(sigma, e, m) ==
    IF Gt(e, Fin(m)) THEN Decrease(sigma) ELSE Increase(sigma)

\* Mutant: 0.0 for a leg that did not converge.
ExhaustedAsZero == Float(0)

\* the value the loop's else clause gives the leg
Exhausted == None

\* Mutant: the round() left out.
AcceptedUnrounded(sigma) == Float(sigma)

\* the value a leg's break gives it
Accepted(sigma) == Float(Round4(sigma))

\* the market price the call loop compares with, and the put loop's
CallTarget(a) == a.m_call

\* Mutant: the put loop comparing with the call quote.
PutTargetIsCall(a) == a.m_call

PutTarget(a) == a.m_put

\* sigma_call = initial_sigma ; sigma_put = initial_sigma
CallSeed(a) == a.initial_sigma

PutSeed(a) == a.initial_sigma

VARIABLES
    args,        \* m_call, m_put, S, K, T, r, initial_sigma
    root,        \* the volatility the quote m_call was priced at, or None
    pc,          \* "call_loop", "put_loop", "return", "returned", "raised"
    iter,        \* iterations of the current loop already run
    sigma_call, sigma_put,
    e_call, e_put,
    call_vol, put_vol,
    callTrace, putTrace    \* every (sigma, price) the leg evaluated, in order

vars == <<args, root, pc, iter, sigma_call, sigma_put, e_call, e_put,
          call_vol, put_vol, callTrace, putTrace>>

Visit(sigma, e, dir) == [sigma |-> sigma, e |-> e, dir |-> dir]

\* One pass of "for _ in range(max_iterations)" of the call leg.
CallIter ==
    /\ pc = "call_loop"
    /\ iter < max_iterations
    /\ \E e \in {BS_CALL(args.S, args.K, args.T, args.r, sigma_call)},
          m \in {CallTarget(args)} :
           IF e.tag = "raise"
           THEN /\ pc' = "raised"
                /\ UNCHANGED <<iter, sigma_call, e_call, call_vol, callTrace>>
           ELSE /\ e_call' = e
                /\ IF Accepts(e, m)
                   THEN /\ call_vol' = Accepted(sigma_call)
                        /\ pc' = "put_loop"
                        /\ iter' = 0
                        /\ callTrace' = Append(callTrace, Visit(sigma_call, e, "break"))
                        /\ UNCHANGED sigma_call
                   ELSE /\ sigma_call' = Adjust(sigma_call, e, m)
                        /\ iter' = iter + 1
                        /\ callTrace' = Append(callTrace,
                               Visit(sigma_call, e, IF Gt(e, Fin(m)) THEN "down" ELSE "up"))
                        /\ UNCHANGED <<pc, call_vol>>
    /\ UNCHANGED <<args, root, sigma_put, e_put, put_vol, putTrace>>

\* The call loop's else clause: the range ran out without a break.
CallElse ==
    /\ pc = "call_loop"
    /\ iter = max_iterations
    /\ call_vol' = Exhausted
    /\ pc' = "put_loop"
    /\ iter' = 0
    /\ UNCHANGED <<args, root, sigma_call, sigma_put, e_call, e_put, put_vol,
                   callTrace, putTrace>>

\* One pass of "for _ in range(max_iterations)" of the put leg.
PutIter ==
    /\ pc = "put_loop"
    /\ iter < max_iterations
    /\ \E e \in {BS_PUT(args.S, args.K, args.T, args.r, sigma_put)},
          m \in {PutTarget(args)} :
           /\ e_put' = e
           /\ IF Accepts(e, m)
              THEN /\ put_vol' = Accepted(sigma_put)
                   /\ pc' = "return"
                   /\ iter' = 0
                   /\ putTrace' = Append(putTrace, Visit(sigma_put, e, "break"))
                   /\ UNCHANGED sigma_put
              ELSE /\ sigma_put' = Adjust(sigma_put, e, m)
                   /\ iter' = iter + 1
                   /\ putTrace' = Append(putTrace,
                          Visit(sigma_put, e, IF Gt(e, Fin(m)) THEN "down" ELSE "up"))
                   /\ UNCHANGED <<pc, put_vol>>
    /\ UNCHANGED <<args, root, sigma_call, e_call, call_vol, callTrace>>

\* The put loop's else clause.
PutElse ==
    /\ pc = "put_loop"
    /\ iter = max_iterations
    /\ put_vol' = Exhausted
    /\ pc' = "return"
    /\ iter' = 0
    /\ UNCHANGED <<args, root, sigma_call, sigma_put, e_call, e_put, call_vol,
                   callTrace, putTrace>>

\* return call_vol, put_vol
Return ==
    /\ pc = "return"
    /\ pc' = "returned"
    /\ UNCHANGED <<args, root, iter, sigma_call, sigma_put, e_call, e_put,
                   call_vol, put_vol, callTrace, putTrace>>

(***************************************************************************)
(* Each leg as a function of its own inputs: the loop of lines 177-187     *)
(* reads m_call, S, K, T, r and sigma_call and nothing else, the loop of   *)
(* lines 190-200 reads m_put, S, K, T, r and sigma_put.                    *)
(***************************************************************************)
\* A leg between passes: its sigma, the passes run, and its result so far.
Leg(sigma, n, vol) == [sigma |-> sigma, n |-> n, vol |-> vol]

Tagged == [tag : STRING, v : Int]

LegState == [sigma : Int, n : Nat, vol : Tagged]

\* One pass of a loop, from the price e that pass computes: the break, or the
\* adjustment of sigma; the else clause once the range has run out.
Pass[m \in Int, l \in LegState, e \in Tagged] ==
    IF l.vol # Unbound THEN l
    ELSE IF Within(e, Fin(m), tolerance) THEN Leg(l.sigma, l.n, Float(Round4(l.sigma)))
    ELSE IF l.n + 1 = max_iterations
         THEN Leg(IF Gt(e, Fin(m)) THEN l.sigma - Mul(l.sigma, step)
                  ELSE l.sigma + Mul(l.sigma, step), l.n + 1, None)
    ELSE Leg(IF Gt(e, Fin(m)) THEN l.sigma - Mul(l.sigma, step)
             ELSE l.sigma + Mul(l.sigma, step), l.n + 1, Unbound)

\* c = <<m_call, S, K, T, r>> (K # 0): one pass of the call loop.
CallPass[c \in Seq(Int), l \in LegState] ==
    IF l.vol # Unbound THEN l
    ELSE Pass[c[1], l, BS_CALL(c[2], c[3], c[4], c[5], l.sigma)]

\* c = <<m_put, S, K, T, r>> (K # 0): one pass of the put loop.
PutPass[c \in Seq(Int), l \in LegState] ==
    IF l.vol # Unbound THEN l
    ELSE Pass[c[1], l, BS_PUT(c[2], c[3], c[4], c[5], l.sigma)]

CallPass10[c \in Seq(Int), l \in LegState] ==
    CallPass[c, CallPass[c, CallPass[c, CallPass[c, CallPass[c,
    CallPass[c, CallPass[c, CallPass[c, CallPass[c, CallPass[c, l]]]]]]]]]]

PutPass10[c \in Seq(Int), l \in LegState] ==
    PutPass[c, PutPass[c, PutPass[c, PutPass[c, PutPass[c,
    PutPass[c, PutPass[c, PutPass[c, PutPass[c, PutPass[c, l]]]]]]]]]]

\* call_vol as lines 173 and 177-187 compute it: max_iterations = 100 passes.
CallLeg(m, S, K, T, r, seed) ==
    (CallPass10[<<m, S, K, T, r>>, CallPass10[<<m, S, K, T, r>>,
     CallPass10[<<m, S, K, T, r>>, CallPass10[<<m, S, K, T, r>>,
     CallPass10[<<m, S, K, T, r>>, CallPass10[<<m, S, K, T, r>>,
     CallPass10[<<m, S, K, T, r>>, CallPass10[<<m, S, K, T, r>>,
     CallPass10[<<m, S, K, T, r>>, CallPass10[<<m, S, K, T, r>>,
         Leg(seed, 0, Unbound)]]]]]]]]]]).vol

\* put_vol as lines 174 and 190-200 compute it.
PutLeg(m, S, K, T, r, seed) ==
    (PutPass10[<<m, S, K, T, r>>, PutPass10[<<m, S, K, T, r>>,
     PutPass10[<<m, S, K, T, r>>, PutPass10[<<m, S, K, T, r>>,
     PutPass10[<<m, S, K, T, r>>, PutPass10[<<m, S, K, T, r>>,
     PutPass10[<<m, S, K, T, r>>, PutPass10[<<m, S, K, T, r>>,
     PutPass10[<<m, S, K, T, r>>, PutPass10[<<m, S, K, T, r>>,
         Leg(seed, 0, Unbound)]]]]]]]]]]).vol

(***************************************************************************)
(* The calls the model makes                                               *)
(***************************************************************************)
\* Seeds are 0.05 * k for k in 5..MaxSeedStep; strikes are
\* 100 * (1 + k) for k in 0..MaxStrikeStep.
MaxSeedStep == 6

MaxStrikeStep == 1

Spot == 100 * SC

Year == SC

Rate == 5 * 10 ^ 4

Seeds == {5 * 10 ^ 4 * k : k \in 5..MaxSeedStep}

Strikes == {100 * SC * (1 + k) : k \in 0..MaxStrikeStep}

\* The volatilities quotes are priced at: 0.2, and 0.001, which no search
\* from a seed in Seeds can come near in 99 steps.
Roots == {2 * 10 ^ 5, 10 ^ 3}

Args(mc, mp, S, K, T, r, seed) ==
    [m_call |-> mc, m_put |-> mp, S |-> S, K |-> K, T |-> T, r |-> r,
     initial_sigma |-> seed]

\* Valid contracts with call quotes priced by the Pricer itself at a root; the
\* put quote is priced too, or is 0, the caller's "no observation".
Priced ==
    UNION {UNION {UNION {
        {<<Args(BS_CALL(Spot, K, Year, Rate, s).v, 0,
                Spot, K, Year, Rate, seed), Float(s)>>,
         <<Args(BS_CALL(Spot, K, Year, Rate, s).v, BS_PUT(Spot, K, Year, Rate, s).v,
                Spot, K, Year, Rate, seed), Float(s)>>}
        : seed \in Seeds} : s \in Roots} : K \in Strikes}

\* Valid at-the-money contracts with call quotes above the spot price, which
\* no volatility reproduces: above by half the tolerance, and by twice it.
AboveSpot ==
    {<<Args(Spot + d, mp, Spot, Spot, Year, Rate, seed), None>> :
        <<d, mp, seed>> \in {5 * 10 ^ 3, 2 * 10 ^ 4} \X {0, 5 * SC} \X Seeds}

\* A valid two-year at-the-money contract quoted at the volatility 0.5, the
\* search seeded at 0.3.
LongDated ==
    {<<Args(BS_CALL(Spot, Spot, 2 * Year, Rate, 5 * 10 ^ 5).v, 0,
            Spot, Spot, 2 * Year, Rate, 3 * 10 ^ 5), Float(5 * 10 ^ 5)>>}

\* Calls that break a precondition of the Pricer, one parameter at a time.
Degenerate ==
    {<<a, None>> : a \in {
        Args(10 * SC, 0, Spot, 90 * SC, 0, Rate, 25 * 10 ^ 4),
        Args(10 * SC, 0, Spot, Spot, 0, Rate, 25 * 10 ^ 4),
        Args(10 * SC, 0, Spot, Spot, -Year, Rate, 25 * 10 ^ 4),
        Args(10 * SC, 0, Spot, Spot, Year, Rate, 0),
        Args(10 * SC, 0, Spot, Spot, Year, Rate, -(25 * 10 ^ 4)),
        Args(10 * SC, 0, 0, Spot, Year, Rate, 25 * 10 ^ 4),
        Args(10 * SC, 0, -Spot, Spot, Year, Rate, 25 * 10 ^ 4),
        Args(10 * SC, 0, Spot, 0, Year, Rate, 25 * 10 ^ 4),
        Args(10 * SC, 0, Spot, -Spot, Year, Rate, 25 * 10 ^ 4)}}

Calls == Priced \cup AboveSpot \cup LongDated \cup Degenerate

Init ==
    /\ \E c \in Calls : args = c[1] /\ root = c[2]
    /\ pc = "call_loop"
    /\ iter = 0
    /\ sigma_call = CallSeed(args)
    /\ sigma_put = PutSeed(args)
    /\ e_call = Unbound
    /\ e_put = Unbound
    /\ call_vol = Unbound
    /\ put_vol = Unbound
    /\ callTrace = <<>>
    /\ putTrace = <<>>

Next == CallIter \/ CallElse \/ PutIter \/ PutElse \/ Return

Spec == Init /\ [][Next]_vars

\* The function runs to its end: no step of it waits on anything.
FairSpec == Spec /\ WF_vars(Next)
(***************************************************************************)
(* Properties                                                              *)
(***************************************************************************)
\* 0.01 and 100, as the properties write them
Cent == 10 ^ 4

Hundred == 10 ^ 2

CallOver == pc \in {"put_loop", "return", "returned"}

PutOver == pc \in {"return", "returned"}

\* The contract meets the Pricer's preconditions and the seed is positive.
ValidCall ==
    args.S > 0 /\ args.K > 0 /\ args.T > 0 /\ args.initial_sigma > 0

\* No pass recorded in the trace found its price within 0.01 of the quote m.
NonePassed(trace, m) ==
    \A i \in 1..Len(trace) : ~(IsFin(trace[i].e) /\ Abs(trace[i].e.v - m) < Cent)

\* C1: a leg whose 100 passes all miss the tolerance gives None, and the call
\* does not raise: the loop's running out is a result, not an error.
C1_ExhaustedLegIsNone ==
    /\ (CallOver /\ Len(callTrace) = Hundred /\ NonePassed(callTrace, args.m_call))
          => call_vol = None
    /\ (PutOver /\ Len(putTrace) = Hundred /\ NonePassed(putTrace, args.m_put))
          => put_vol = None
    /\ (Len(callTrace) = Hundred \/ Len(putTrace) > 0) => pc # "raised"

C1_Witness ==
    /\ pc = "returned"
    /\ Len(callTrace) = Hundred /\ NonePassed(callTrace, args.m_call)
    /\ call_vol = None
    /\ put_vol.tag = "float"

\* C2: every call ends, and neither leg prices more than 100 times (so the
\* call prices at most 200 times).
C2_TerminatesWithin200 ==
    /\ [](Len(callTrace) <= Hundred /\ Len(putTrace) <= Hundred)
    /\ <>(pc \in {"returned", "raised"})

C2_Witness ==
    pc = "returned" /\ Len(callTrace) = Hundred /\ Len(putTrace) = Hundred

\* v is sigma rounded to four decimals: a multiple of 10^-4 at most half of
\* 10^-4 away, the even multiple when sigma lies halfway.
IsRound4(v, sigma) ==
    /\ v % Hundred = 0
    /\ Abs(v - sigma) <= 50
    /\ Abs(v - sigma) = 50 => (v \div Hundred) % 2 = 0

\* The trace ends in the first pass whose price is within 0.01 of m, that pass
\* priced sigma, and the leg's result v is that sigma rounded.
FirstHit(trace, m, sigma, v) ==
    /\ Len(trace) >= 1
    /\ NonePassed(SubSeq(trace, 1, Len(trace) - 1), m)
    /\ ~NonePassed(trace, m)
    /\ trace[Len(trace)].sigma = sigma
    /\ IsRound4(v, sigma)

\* C3: a leg's float result is round(sigma, 4) of the first sigma of its
\* sequence priced within 0.01 of the quote, the price being the Pricer's at
\* that sigma, and sigma is not adjusted after that pass.
C3_ResultIsFirstHitRounded ==
    /\ (CallOver /\ call_vol.tag = "float") =>
          /\ FirstHit(callTrace, args.m_call, sigma_call, call_vol.v)
          /\ e_call = BS_CALL(args.S, args.K, args.T, args.r, sigma_call)
          /\ e_call = callTrace[Len(callTrace)].e
    /\ (PutOver /\ put_vol.tag = "float") =>
          /\ FirstHit(putTrace, args.m_put, sigma_put, put_vol.v)
          /\ e_put = BS_PUT(args.S, args.K, args.T, args.r, sigma_put)
          /\ e_put = putTrace[Len(putTrace)].e

C3_Witness ==
    /\ pc = "returned"
    /\ call_vol.tag = "float" /\ Len(callTrace) > 10 /\ call_vol.v # sigma_call
    /\ put_vol.tag = "float" /\ Len(putTrace) > 10 /\ put_vol.v # sigma_put

\* C4: with T <= 0, sigma <= 0, S <= 0 or K <= 0 the Pricer gives no number and
\* no nan, and implied_volatility gives no result: the error goes to the caller.
C4_InvalidParameterRaises ==
    ~(args.S > 0 /\ args.K > 0 /\ args.T > 0 /\ args.initial_sigma > 0) =>
        /\ e_call = Unbound /\ e_put = Unbound
        /\ call_vol = Unbound /\ put_vol = Unbound
        /\ pc \in {"call_loop", "raised"}

\* C5 as claimed: a call quote above S, which no volatility reproduces, gives
\* None for the call leg.
C5_QuoteAboveSpotIsNone ==
    (ValidCall /\ args.m_call > args.S /\ CallOver) => call_vol = None

\* C5 as amended: a call quote above S by the tolerance or more gives None
\* after 100 passes; the call does not raise and sigma stays positive.
C5_QuoteAboveSpotByToleranceIsNone ==
    (ValidCall /\ args.m_call >= args.S + Cent) =>
        /\ pc # "raised"
        /\ sigma_call > 0
        /\ call_vol.tag # "float"
        /\ CallOver => (call_vol = None /\ Len(callTrace) = Hundred)

C5_Witness ==
    /\ ValidCall /\ args.m_call >= args.S + Cent
    /\ pc = "returned" /\ call_vol = None /\ Len(callTrace) = Hundred

\* The call quote is the Pricer's price at root, a volatility in 0.05..0.8; the
\* put side has no observation; the seed is within 50% of root.
RoundTrip ==
    /\ ValidCall
    /\ root.tag = "float" /\ root.v >= 5 * Cent /\ root.v <= 80 * Cent
    /\ args.m_put = 0
    /\ 2 * Abs(args.initial_sigma - root.v) <= root.v

\* C6 as claimed: every round trip returns a call_vol within 0.01 of root.
C6_RoundTripRecovers ==
    (RoundTrip /\ pc = "returned") =>
        (call_vol.tag = "float" /\ Abs(call_vol.v - root.v) <= Cent)

\* S = K = 100, T = 1, r = 0.05, quoted at 0.2
Reference ==
    /\ args.S = Hundred * SC /\ args.K = Hundred * SC /\ args.T = SC
    /\ args.r = 5 * Cent /\ root = Float(20 * Cent)

\* C6 as amended: the round trip of the reference contract, seeded at 0.25 or
\* at 0.30, returns a call_vol within 0.01 of 0.2, inside the 100 passes.
C6_ReferenceRoundTripRecovers ==
    (RoundTrip /\ Reference /\ args.initial_sigma \in {25 * Cent, 30 * Cent}
       /\ pc = "returned") =>
        /\ call_vol.tag = "float" /\ Abs(call_vol.v - root.v) <= Cent
        /\ Len(callTrace) <= Hundred

C6_Witness ==
    /\ RoundTrip /\ Reference /\ args.initial_sigma = 25 * Cent
    /\ pc = "returned" /\ call_vol = Float(2001 * Hundred)

\* x * p / 100 to the nearest unit, for a percentage p
Percent(x, p) ==
    Sgn(x) * (p * (Abs(x) \div Hundred) + (p * (Abs(x) % Hundred) + 50) \div Hundred)

\* to is from * p / 100, to the last digit carried
Scaled(from, to, p) == Abs(to - Percent(from, p)) <= 1

\* a pass of the call loop, or of the put loop, that does not accept
CallMiss == pc = "call_loop" /\ pc' = "call_loop" /\ iter' = iter + 1

PutMiss == pc = "put_loop" /\ pc' = "put_loop" /\ iter' = iter + 1

Went(trace, dir) == \E i \in 1..Len(trace) : trace[i].dir = dir

C8_LegsIndependent ==
    pc = "returned" =>
        /\ call_vol = CallLeg(args.m_call, args.S, args.K, args.T, args.r,
                              args.initial_sigma)
        /\ put_vol = PutLeg(args.m_put, args.S, args.K, args.T, args.r,
                            args.initial_sigma)

C8_Witness ==
    /\ pc = "returned" /\ args.m_put # 0 /\ args.m_call # args.m_put
    /\ call_vol.tag = "float" /\ put_vol.tag = "float" /\ call_vol # put_vol

Power[base \in Nat, n \in Nat] ==
    IF n = 0 THEN SC
    ELSE IF n % 2 = 0 THEN Power[Mul(base, base), n \div 2]
    ELSE Mul(base, Power[Mul(base, base), n \div 2])

\* seed * 0.95^a * 1.05^b
Lattice(seed, a, b) == Mul(Mul(seed, Power[95 * Cent, a]), Power[105 * Cent, b])

\* x and y agree to one part in 1000 and two digits: what the rounding of up
\* to 99 fixed-point products can amount to.
Near(x, y) == Abs(x - y) <= 2 + y \div 1000

Count(trace, n, dir) == Cardinality({i \in 1..n : trace[i].dir = dir})

\* The last sigma a leg priced is positive, is seed * 0.95^a * 1.05^b for the
\* a downward and b upward passes before it, a + b <= 99 of them, and lies
\* between seed * 0.95^99 and seed * 1.05^99.
OnLattice(trace, seed) ==
    Len(trace) >= 1 =>
        \E n \in {Len(trace)}, a \in {Count(trace, Len(trace) - 1, "down")},
           b \in {Count(trace, Len(trace) - 1, "up")} :
            /\ trace[n].sigma > 0
            /\ a + b = n - 1 /\ n - 1 <= 99
            /\ Near(trace[n].sigma, Lattice(seed, a, b))
            /\ trace[n].sigma >= Lattice(seed, 99, 0) - 2
            /\ trace[n].sigma <= Lattice(seed, 0, 99) + Lattice(seed, 0, 99) \div 1000

\* root lies outside [seed * 0.95^99, seed * 1.05^99]
RootOutside ==
    /\ root.tag = "float"
    /\ \/ root.v < Lattice(args.initial_sigma, 99, 0) - 2
       \/ root.v > Lattice(args.initial_sigma, 0, 99)
                     + Lattice(args.initial_sigma, 0, 99) \div 1000

\* C10 as claimed: for initial_sigma > 0 every priced sigma is on the lattice
\* and in the interval, every float result is non-negative, and a root
\* outside the interval gives None.
C10_LatticeAndRootOutsideIsNone ==
    args.initial_sigma > 0 =>
        /\ OnLattice(callTrace, args.initial_sigma)
        /\ OnLattice(putTrace, args.initial_sigma)
        /\ call_vol.tag = "float" => call_vol.v >= 0
        /\ put_vol.tag = "float" => put_vol.v >= 0
        /\ (RootOutside /\ CallOver) => call_vol = None

\* C10 as amended: the same without its last clause.
C10_Lattice ==
    args.initial_sigma > 0 =>
        /\ OnLattice(callTrace, args.initial_sigma)
        /\ OnLattice(putTrace, args.initial_sigma)
        /\ call_vol.tag = "float" => call_vol.v >= 0
        /\ put_vol.tag = "float" => put_vol.v >= 0

C10_Witness ==
    /\ args.initial_sigma > 0 /\ pc = "returned"
    /\ Len(callTrace) = Hundred /\ Count(callTrace, 99, "up") = 99
    /\ Len(putTrace) > 40 /\ put_vol.tag = "float"
====
